---------------------------- MODULE Spec2Model ----------------------------
(***************************************************************************)
(* A model of class_loader::ClassLoader (src/src/class_loader.cpp): the    *)
(* per-handle load and plugin reference counts, the two handle mutexes,    *)
(* and the calls the handle makes into class_loader::impl (the library     *)
(* registry).  The registry, the dynamic-module primitive and the          *)
(* plugin-count hooks are not part of class_loader.cpp; they are modelled  *)
(* from the design document (sections 4.2, 5 and 6).                       *)
(*                                                                         *)
(* Each thread runs one call at a time.  A call is cut into steps at every *)
(* lock acquisition and at every access to shared state, so that all       *)
(* interleavings of the calls of different threads are explored.           *)
(***************************************************************************)
EXTENDS Integers, FiniteSets, Sequences, TLC

\* ------------------------------------------------------------------ bounds
\* calls issued in one run, over all handles (construction, destruction and
\* instance deletion are bounded by themselves and not counted)
MaxCalls == 2
\* plugin instances of one handle alive at a time
MaxInstances == 1
\* failures of the primitive's open/close in one run
MaxFaults == 1

Threads == {1, 2}
Handles == {"A", "B"}
NoThread == 0
NoHandle == "none"
\* "" is the sentinel of class_loader.cpp:126/137; the others are real libraries
LibPaths == {"libfoo"}
Paths == {""} \cup LibPaths

VARIABLES
    pc,         \* pc[t]: the position of thread t inside its current call
    fr,         \* fr[t]: the call frame of thread t (and the outcome of its last call)
    st,         \* st[h]: lifecycle of the handle object
    path,       \* library_path_
    ondemand,   \* ondemand_load_unload_
    lrc,        \* load_ref_count_
    prc,        \* plugin_ref_count_
    loadLock,   \* load_ref_count_mutex_ (recursive): [owner, depth]
    plugLock,   \* plugin_ref_count_mutex_: owner
    owners,     \* registry: owners[p], the handles holding path p loaded
    module,     \* registry: module[p], the module of p is physically loaded
    regLock,    \* registry lock: owner
    nOpen,      \* nOpen[p]: invocations of the primitive's open
    nClose,     \* nClose[p]: invocations of the primitive's close
    issued,     \* calls issued so far (history)
    calls,      \* calls[h] (history): the loadLibrary() and unloadLibrary()
                \* calls issued on h, the unloads that found the count at 0,
                \* the unloadLibrary() calls made by its destructor,
                \* whether any other call was issued on h, and whether a
                \* release of h has failed with no increment since
    faults,     \* primitive failures so far
    terminated  \* std::terminate was called

vars == <<pc, fr, st, path, ondemand, lrc, prc, loadLock, plugLock, owners,
          module, regLock, nOpen, nClose, issued, calls, faults,
          terminated>>

handleVars == <<st, path, ondemand, lrc, prc>>
lockVars == <<loadLock, plugLock>>
regVars == <<owners, module, regLock, nOpen, nClose>>

\* ------------------------------------------------------------ call frames
IdleFrame ==
    [kind |-> "none", h |-> NoHandle, lockPlugin |-> FALSE, edge |-> FALSE,
     refused |-> FALSE, released |-> FALSE, closed |-> FALSE, clamped |-> FALSE,
     reentered |-> FALSE,
     lrc0 |-> 0, ret |-> 0, err |-> "none", outer |-> <<>>]

NewFrame(k, h) == [IdleFrame EXCEPT !.kind = k, !.h = h]

NoCalls ==
    [load |-> 0, unload |-> 0, clamps |-> 0, dtor |-> 0, other |-> FALSE,
     relFailed |-> FALSE]
histVars == <<issued, calls>>

\* a further call may be issued
MayIssue == issued < MaxCalls

\* a thread is inside a call on h
Busy(t) == pc[t] # "idle"
InCall(t) == pc[t] \notin {"idle", "done"}
\* Idle threads are interchangeable: a new call is given to the first of them.
Picks(t) == pc[t] = "idle" /\ \A u \in Threads : u < t => pc[u] # "idle"
InCallOn(h) == {t \in Threads : Busy(t) /\ fr[t].h = h}

\* ----------------------------------------------------------------- mutexes
\* t runs a call made from inside another call of its own (from code that the
\* primitive runs during open or close); fr[t].outer holds the suspended call
Nested(t) == fr[t].outer # <<>>

FreeLoadLock == [owner |-> NoThread, depth |-> 0]

\* std::recursive_mutex::lock() succeeds when free or already owned by t
CanLockLoad(t, h) == loadLock[h].owner \in {NoThread, t}
LockLoad(t, h) == [owner |-> t, depth |-> loadLock[h].depth + 1]
UnlockLoad(h) ==
    IF loadLock[h].depth = 1 THEN FreeLoadLock
    ELSE [loadLock[h] EXCEPT !.depth = @ - 1]

\* ------------------------------------------------- class_loader.cpp helpers
\* (bug variant: the sentinel is not recognised)
IsStaticPath_never(p) == FALSE
\* line 126 / 137: getLibraryPath() == ""
IsStaticPath(p) == p = ""

\* (bug variant: the count is not raised)
IncrementLoadRef_none(c) == c
\* (bug variant: the count is raised twice)
IncrementLoadRef_twice(c) == c + 2
\* line 131: ++load_ref_count_
IncrementLoadRef(c) == c + 1

\* (bug variant: live instances do not refuse the unload)
RefuseUnload_never(h) == FALSE
\* (bug variant: one live instance does not yet refuse)
RefuseUnload_offByOne(h) == prc[h] > 1
\* line 152: plugin_ref_count_ > 0
RefuseUnload(h) == prc[h] > 0

\* (bug variant: the count is lowered twice)
DecrementLoadRef_twice(c) == c - 2
\* line 159: load_ref_count_ = load_ref_count_ - 1
DecrementLoadRef(c) == c - 1

\* (bug variant: the delegation is repeated when the count is already 0)
ReachedZero_orBelow(c) == c <= 0
\* (bug variant: the delegation comes one request early)
ReachedZero_one(c) == c = 1
\* (bug variant: the delegation is tied to the clamping case)
ReachedZero_negative(c) == c < 0
\* line 160: load_ref_count_ == 0
ReachedZero(c) == c = 0

\* (bug variant: no floor at 0)
ClampLoadRef_none(c) == c
\* lines 162-163: else if (load_ref_count_ < 0) load_ref_count_ = 0
ClampLoadRef(c) == IF c < 0 THEN 0 ELSE c

\* ------------------------------------------------ registry (design, 4.2)
\* The registry lock is held across the primitive's open and close.  The
\* design lets code run by the primitive re-enter load/unload, which go
\* through the registry again, so its lock admits the thread that holds it.
CanLockRegistry(t) == regLock \in {NoThread, t}
\* a nested call leaves the lock with the suspended call of the same thread
UnlockRegistry(t) == IF Nested(t) THEN t ELSE NoThread

\* isLoaded(path, handle): handle is a member of the owner set
isLibraryLoadedImpl(p, h) == h \in owners[p]
\* isLoadedByAnybody(path): the owner set is non-empty
isLibraryLoadedByAnybodyImpl(p) == owners[p] # {}

\* acquire opens the module when the owner set S was empty beforehand
OpensModule(S) == S = {}

\* (bug variant: any release of a loaded path closes the module)
ClosesModule_always(S, h) == S # {}
\* release closes the module when removing h empties the owner set S
ClosesModule(S, h) == S # {} /\ S \ {h} = {}

\* (bug variant: the query is forwarded to the process-wide one)
isLibraryLoaded_anybody(h) == isLibraryLoadedByAnybodyImpl(path[h])
\* lines 109-112: forwarded with getLibraryPath() and this
isLibraryLoaded(h) == isLibraryLoadedImpl(path[h], h)
\* lines 114-117: forwarded with getLibraryPath()
isLibraryLoadedByAnyClassloader(h) == isLibraryLoadedByAnybodyImpl(path[h])

Init ==
    /\ pc = [t \in Threads |-> "idle"]
    /\ fr = [t \in Threads |-> IdleFrame]
    /\ st = [h \in Handles |-> "none"]
    /\ path = [h \in Handles |-> ""]
    /\ ondemand = [h \in Handles |-> FALSE]
    /\ lrc = [h \in Handles |-> 0]
    /\ prc = [h \in Handles |-> 0]
    /\ loadLock = [h \in Handles |-> FreeLoadLock]
    /\ plugLock = [h \in Handles |-> NoThread]
    /\ owners = [p \in Paths |-> {}]
    /\ module = [p \in Paths |-> FALSE]
    /\ regLock = NoThread
    /\ nOpen = [p \in Paths |-> 0]
    /\ nClose = [p \in Paths |-> 0]
    /\ calls = [h \in Handles |-> NoCalls]
    /\ issued = 0
    /\ faults = 0
    /\ terminated = FALSE


\* ------------------------------------------------------- end of a call
\* (variant: the destructor drains the count, as the note of line 101
\* considers)
DestructorUnloadsAgain_drain(ret) == ret > 0
\* line 101: the destructor calls unloadLibrary() once and drops its result
DestructorUnloadsAgain(ret) == FALSE

\* What the caller of loadLibrary()/unloadLibrary() does with the outcome f:
\* the constructor (lines 90-92) completes the object or, when loadLibrary()
\* threw, abandons it; the destructor (line 101) ends the object, and an
\* exception leaving it ends the process; a plugin-lock holder goes on to
\* release its lock.
EndCall(t, f) ==
    IF f.kind = "dtor" /\ f.err = "none" /\ DestructorUnloadsAgain(f.ret)
    THEN /\ fr' = [fr EXCEPT ![t] = NewFrame("dtor", f.h)]
         /\ pc' = [pc EXCEPT ![t] = "unload_enter"]
         /\ UNCHANGED <<st, terminated>>
    ELSE /\ fr' = [fr EXCEPT ![t] = f]
         /\ st' = CASE f.kind = "ctor" ->
                         [st EXCEPT ![f.h] = IF f.err = "none" THEN "alive" ELSE "dead"]
                    [] f.kind = "dtor" -> [st EXCEPT ![f.h] = "dead"]
                    [] OTHER -> st
         /\ pc' = [pc EXCEPT ![t] = IF f.kind = "internal" THEN "held_unlock" ELSE "done"]
         /\ terminated' = (f.kind = "dtor" /\ f.err # "none")

\* ------------------------------------------- ClassLoader::ClassLoader
\* (bug variant: the constructor loads in both modes)
LoadsAtConstruction_always(od) == TRUE
\* line 90: if (!isOnDemandLoadUnloadEnabled())
LoadsAtConstruction(od) == ~od

\* lines 80-93
Construct(t, h, p, od) ==
    /\ Picks(t)
    /\ st[h] = "none"
    /\ h = "A" \/ st["A"] # "none"
    /\ path' = [path EXCEPT ![h] = p]
    /\ ondemand' = [ondemand EXCEPT ![h] = od]
    /\ lrc' = [lrc EXCEPT ![h] = 0]
    /\ prc' = [prc EXCEPT ![h] = 0]
    /\ fr' = [fr EXCEPT ![t] = NewFrame("ctor", h)]
    /\ st' = [st EXCEPT ![h] = IF LoadsAtConstruction(od) THEN "ctor" ELSE "alive"]
    /\ pc' = [pc EXCEPT ![t] = IF LoadsAtConstruction(od) THEN "load_enter" ELSE "done"]
    /\ UNCHANGED <<lockVars, regVars, histVars, faults, terminated>>

\* ------------------------------------------ ClassLoader::~ClassLoader
\* lines 95-102.  A handle is destroyed only when no call on it is running.
Destroy(t, h) ==
    /\ Picks(t)
    /\ st[h] = "alive"
    /\ InCallOn(h) = {}
    /\ st' = [st EXCEPT ![h] = "dtor"]
    /\ fr' = [fr EXCEPT ![t] = NewFrame("dtor", h)]
    /\ pc' = [pc EXCEPT ![t] = "unload_enter"]
    /\ UNCHANGED <<path, ondemand, lrc, prc, lockVars, regVars, histVars, faults,
                   terminated>>

\* -------------------------------------------- ClassLoader::loadLibrary
\* a caller issues loadLibrary()
LoadCall(t, h) ==
    /\ Picks(t)
    /\ st[h] = "alive"
    /\ MayIssue
    /\ issued' = issued + 1
    /\ calls' = [calls EXCEPT ![h].load = @ + 1]
    /\ fr' = [fr EXCEPT ![t] = NewFrame("load", h)]
    /\ pc' = [pc EXCEPT ![t] = "load_enter"]
    /\ UNCHANGED <<handleVars, lockVars, regVars, faults, terminated>>

\* lines 126-130: the sentinel check, then the lock_guard on the load mutex
loadLibrary_enter(t) ==
    /\ pc[t] = "load_enter"
    /\ LET h == fr[t].h IN
       IF IsStaticPath(path[h])
       THEN /\ EndCall(t, fr[t])
            /\ UNCHANGED <<path, ondemand, lrc, prc, lockVars, regVars, histVars, faults>>
       ELSE /\ CanLockLoad(t, h)
            /\ loadLock' = [loadLock EXCEPT ![h] = LockLoad(t, h)]
            /\ pc' = [pc EXCEPT ![t] = "load_inc"]
            /\ UNCHANGED <<fr, handleVars, plugLock, regVars, histVars, faults,
                           terminated>>

\* line 131
loadLibrary_inc(t) ==
    /\ pc[t] = "load_inc"
    /\ lrc' = [lrc EXCEPT ![fr[t].h] = IncrementLoadRef(@)]
    /\ fr' = [fr EXCEPT ![t].lrc0 = lrc[fr[t].h]]
    /\ calls' = [calls EXCEPT ![fr[t].h].relFailed = FALSE]
    /\ pc' = [pc EXCEPT ![t] = "acq_add"]
    /\ UNCHANGED <<st, path, ondemand, prc, lockVars, regVars, issued, faults,
                   terminated>>

\* line 132 -> Registry.acquire(path, self), first half: under the registry
\* lock the handle joins the owner set
Registry_acquire_add(t) ==
    /\ pc[t] = "acq_add"
    /\ CanLockRegistry(t)
    /\ LET h == fr[t].h
           p == path[h]
       IN /\ regLock' = t
          /\ fr' = [fr EXCEPT ![t].edge = OpensModule(owners[p])]
          /\ owners' = [owners EXCEPT ![p] = @ \cup {h}]
    /\ pc' = [pc EXCEPT ![t] = "acq_open"]
    /\ UNCHANGED <<handleVars, lockVars, module, nOpen, nClose, histVars, faults,
                   terminated>>

\* Registry.acquire, second half: the primitive's open when the set was
\* empty; a LoadError leaves nobody owning the path
Registry_acquire_open(t) ==
    /\ pc[t] = "acq_open"
    /\ LET h == fr[t].h
           p == path[h]
       IN IF fr[t].edge
          THEN /\ nOpen' = [nOpen EXCEPT ![p] = @ + 1]
               /\ \/ /\ module' = [module EXCEPT ![p] = TRUE]
                     /\ UNCHANGED <<owners, fr, faults>>
                  \/ /\ faults < MaxFaults
                     /\ faults' = faults + 1
                     /\ owners' = [owners EXCEPT ![p] = @ \ {h}]
                     /\ fr' = [fr EXCEPT ![t].err = "LoadError"]
                     /\ UNCHANGED module
          ELSE UNCHANGED <<nOpen, module, owners, fr, faults>>
    /\ regLock' = UnlockRegistry(t)
    /\ pc' = [pc EXCEPT ![t] = "load_exit"]
    /\ UNCHANGED <<handleVars, lockVars, nClose, histVars, terminated>>

\* line 133: the lock_guard releases the load mutex (also when unwinding)
loadLibrary_exit(t) ==
    /\ pc[t] = "load_exit"
    /\ loadLock' = [loadLock EXCEPT ![fr[t].h] = UnlockLoad(fr[t].h)]
    /\ EndCall(t, fr[t])
    /\ UNCHANGED <<path, ondemand, lrc, prc, plugLock, regVars, histVars, faults>>

\* ------------------------------------------ ClassLoader::unloadLibrary
\* a caller issues unloadLibrary()
UnloadCall(t, h) ==
    /\ Picks(t)
    /\ st[h] = "alive"
    /\ MayIssue
    /\ issued' = issued + 1
    /\ calls' = [calls EXCEPT ![h].unload = @ + 1]
    /\ fr' = [fr EXCEPT ![t] = NewFrame("unload", h)]
    /\ pc' = [pc EXCEPT ![t] = "unload_enter"]
    /\ UNCHANGED <<handleVars, lockVars, regVars, faults, terminated>>

\* lines 135-142
unloadLibrary_enter(t) ==
    /\ pc[t] = "unload_enter"
    /\ calls' = IF fr[t].kind = "dtor" THEN [calls EXCEPT ![fr[t].h].dtor = @ + 1]
                ELSE calls
    /\ IF IsStaticPath(path[fr[t].h])
       THEN /\ EndCall(t, [fr[t] EXCEPT !.ret = 0])
            /\ UNCHANGED <<path, ondemand, lrc, prc, lockVars, regVars, issued, faults>>
       ELSE /\ fr' = [fr EXCEPT ![t].lockPlugin = TRUE]
            /\ pc' = [pc EXCEPT ![t] = "int_lock"]
            /\ UNCHANGED <<handleVars, lockVars, regVars, issued, faults, terminated>>

\* ---------------------------------- ClassLoader::unloadLibraryInternal
\* line 146
unloadLibraryInternal_lock(t) ==
    /\ pc[t] = "int_lock"
    /\ CanLockLoad(t, fr[t].h)
    /\ loadLock' = [loadLock EXCEPT ![fr[t].h] = LockLoad(t, fr[t].h)]
    /\ pc' = [pc EXCEPT ![t] = "int_plock"]
    /\ UNCHANGED <<fr, handleVars, plugLock, regVars, histVars, faults, terminated>>

\* (bug variant: the plugin mutex is not taken)
LocksPlugin_never(f) == FALSE
\* line 147: if (lock_plugin_ref_count)
LocksPlugin(f) == f.lockPlugin

\* lines 147-149
unloadLibraryInternal_lockPlugin(t) ==
    /\ pc[t] = "int_plock"
    /\ IF LocksPlugin(fr[t])
       THEN /\ plugLock[fr[t].h] = NoThread
            /\ plugLock' = [plugLock EXCEPT ![fr[t].h] = t]
       ELSE UNCHANGED plugLock
    /\ pc' = [pc EXCEPT ![t] = "int_check"]
    /\ UNCHANGED <<fr, handleVars, loadLock, regVars, histVars, faults, terminated>>

\* lines 152-159: the refusal, or the decrement
unloadLibraryInternal_check(t) ==
    /\ pc[t] = "int_check"
    /\ LET h == fr[t].h IN
       IF RefuseUnload(h)
       THEN /\ fr' = [fr EXCEPT ![t].refused = TRUE, ![t].lrc0 = lrc[h]]
            /\ pc' = [pc EXCEPT ![t] = "int_unlock"]
            /\ UNCHANGED lrc
       ELSE /\ fr' = [fr EXCEPT ![t].lrc0 = lrc[h]]
            /\ lrc' = [lrc EXCEPT ![h] = DecrementLoadRef(@)]
            /\ pc' = [pc EXCEPT ![t] = "int_branch"]
    /\ UNCHANGED <<st, path, ondemand, prc, lockVars, regVars, histVars, faults,
                   terminated>>

\* lines 160-164: delegate at zero, clamp below zero
unloadLibraryInternal_branch(t) ==
    /\ pc[t] = "int_branch"
    /\ LET h == fr[t].h IN
       IF ReachedZero(lrc[h])
       THEN /\ pc' = [pc EXCEPT ![t] = "rel_remove"]
            /\ UNCHANGED <<lrc, fr, calls>>
       ELSE /\ lrc' = [lrc EXCEPT ![h] = ClampLoadRef(@)]
            /\ fr' = [fr EXCEPT ![t].clamped = (lrc[h] < 0)]
            /\ calls' = IF lrc[h] < 0 THEN [calls EXCEPT ![h].clamps = @ + 1] ELSE calls
            /\ pc' = [pc EXCEPT ![t] = "int_unlock"]
    /\ UNCHANGED <<st, path, ondemand, prc, lockVars, regVars, issued, faults,
                   terminated>>

\* line 161 -> Registry.release(path, self), first half: under the registry
\* lock the handle leaves the owner set
Registry_release_remove(t) ==
    /\ pc[t] = "rel_remove"
    /\ CanLockRegistry(t)
    /\ LET h == fr[t].h
           p == path[h]
       IN /\ regLock' = t
          /\ fr' = [fr EXCEPT ![t].released = TRUE,
                              ![t].edge = ClosesModule(owners[p], h)]
          /\ owners' = [owners EXCEPT ![p] = @ \ {h}]
    /\ pc' = [pc EXCEPT ![t] = "rel_close"]
    /\ UNCHANGED <<handleVars, lockVars, module, nOpen, nClose, histVars, faults,
                   terminated>>

\* Registry.release, second half: the primitive's close when the set became
\* empty; the module reference is dropped whether or not close reports an
\* UnloadError
Registry_release_close(t) ==
    /\ pc[t] = "rel_close"
    /\ LET h == fr[t].h
           p == path[h]
       IN IF fr[t].edge
          THEN /\ nClose' = [nClose EXCEPT ![p] = @ + 1]
               /\ module' = [module EXCEPT ![p] = FALSE]
               /\ \/ /\ fr' = [fr EXCEPT ![t].closed = TRUE]
                     /\ UNCHANGED <<faults, calls>>
                  \/ /\ faults < MaxFaults
                     /\ faults' = faults + 1
                     /\ fr' = [fr EXCEPT ![t].closed = TRUE, ![t].err = "UnloadError"]
                     /\ calls' = [calls EXCEPT ![h].relFailed = TRUE]
          ELSE UNCHANGED <<nClose, module, fr, faults, calls>>
    /\ regLock' = UnlockRegistry(t)
    /\ pc' = [pc EXCEPT ![t] = "int_unlock"]
    /\ UNCHANGED <<handleVars, lockVars, owners, nOpen, issued, terminated>>

\* (bug variant: no catch block, the unlock of line 173 is skipped by an
\* exception)
UnlocksPlugin_normalPathOnly(f) == f.lockPlugin /\ f.err = "none"
\* lines 167-169 (catch block) and 172-174 (normal path): the plugin mutex is
\* unlocked when this call locked it
UnlocksPlugin(f) == f.lockPlugin

\* lines 166-174: the plugin mutex is unlocked on the normal path and in the
\* catch block alike
unloadLibraryInternal_unlock(t) ==
    /\ pc[t] = "int_unlock"
    /\ plugLock' = IF UnlocksPlugin(fr[t]) THEN [plugLock EXCEPT ![fr[t].h] = NoThread]
                   ELSE plugLock
    /\ pc' = [pc EXCEPT ![t] = "int_ret"]
    /\ UNCHANGED <<fr, handleVars, loadLock, regVars, histVars, faults, terminated>>

\* lines 175-176: return load_ref_count_ (or rethrow), then the lock_guard
\* releases the load mutex
unloadLibraryInternal_ret(t) ==
    /\ pc[t] = "int_ret"
    /\ loadLock' = [loadLock EXCEPT ![fr[t].h] = UnlockLoad(fr[t].h)]
    /\ EndCall(t, IF fr[t].err = "none" THEN [fr[t] EXCEPT !.ret = lrc[fr[t].h]]
                  ELSE fr[t])
    /\ UNCHANGED <<path, ondemand, lrc, prc, plugLock, regVars, histVars, faults>>

\* ----------------------- plugin_ref_count hooks (design, 3 and 6)
\* An instance has been created from the module of h: the factory layer now
\* counts it.
CreateInstance(t, h) ==
    /\ Picks(t)
    /\ st[h] = "alive"
    /\ regLock = NoThread
    /\ isLibraryLoaded(h) /\ module[path[h]]
    /\ MayIssue
    /\ prc[h] + Cardinality({u \in InCallOn(h) : fr[u].kind = "inc"}) < MaxInstances
    /\ issued' = issued + 1
    /\ calls' = [calls EXCEPT ![h].other = TRUE]
    /\ fr' = [fr EXCEPT ![t] = NewFrame("inc", h)]
    /\ pc' = [pc EXCEPT ![t] = "plug_lock"]
    /\ UNCHANGED <<handleVars, lockVars, regVars, faults, terminated>>

\* An instance of h is deleted: the factory layer discounts it.
DeleteInstance(t, h) ==
    /\ Picks(t)
    /\ st[h] = "alive"
    /\ prc[h] > Cardinality({u \in InCallOn(h) : fr[u].kind = "dec"})
    /\ fr' = [fr EXCEPT ![t] = NewFrame("dec", h)]
    /\ pc' = [pc EXCEPT ![t] = "plug_lock"]
    /\ UNCHANGED <<handleVars, lockVars, regVars, histVars, faults, terminated>>

\* the hooks take the plugin mutex ...
plugin_lock(t) ==
    /\ pc[t] = "plug_lock"
    /\ plugLock[fr[t].h] = NoThread
    /\ plugLock' = [plugLock EXCEPT ![fr[t].h] = t]
    /\ pc' = [pc EXCEPT ![t] = "plug_body"]
    /\ UNCHANGED <<fr, handleVars, loadLock, regVars, histVars, faults, terminated>>

\* ... change plugin_ref_count_ by one and release it
plugin_body(t) ==
    /\ pc[t] = "plug_body"
    /\ prc' = [prc EXCEPT ![fr[t].h] = IF fr[t].kind = "inc" THEN @ + 1 ELSE @ - 1]
    /\ plugLock' = [plugLock EXCEPT ![fr[t].h] = NoThread]
    /\ pc' = [pc EXCEPT ![t] = "idle"]
    /\ fr' = [fr EXCEPT ![t] = IdleFrame]
    /\ UNCHANGED <<st, path, ondemand, lrc, loadLock, regVars, histVars, faults,
                   terminated>>

\* ------ a call site that already holds the plugin mutex (design, 4.1)
\* unloadLibraryInternal(false) exists for callers that hold the plugin
\* mutex: such a caller locks it, calls, and unlocks it.
InternalCall(t, h) ==
    /\ Picks(t)
    /\ st[h] = "alive"
    /\ MayIssue
    /\ issued' = issued + 1
    /\ calls' = [calls EXCEPT ![h].other = TRUE]
    /\ fr' = [fr EXCEPT ![t] = NewFrame("internal", h)]
    /\ pc' = [pc EXCEPT ![t] = "held_lock"]
    /\ UNCHANGED <<handleVars, lockVars, regVars, faults, terminated>>

holder_lock(t) ==
    /\ pc[t] = "held_lock"
    /\ plugLock[fr[t].h] = NoThread
    /\ plugLock' = [plugLock EXCEPT ![fr[t].h] = t]
    /\ pc' = [pc EXCEPT ![t] = "int_lock"]
    /\ UNCHANGED <<fr, handleVars, loadLock, regVars, histVars, faults, terminated>>

holder_unlock(t) ==
    /\ pc[t] = "held_unlock"
    /\ plugLock' = [plugLock EXCEPT ![fr[t].h] = NoThread]
    /\ pc' = [pc EXCEPT ![t] = "idle"]
    /\ fr' = [fr EXCEPT ![t] = IdleFrame]
    /\ UNCHANGED <<handleVars, loadLock, regVars, histVars, faults, terminated>>

\* the caller has received the outcome of its call and goes on; the caller
\* of a nested call is the code run by the primitive, which resumes the
\* suspended open or close
Return(t) ==
    /\ pc[t] = "done"
    /\ IF Nested(t)
       THEN /\ pc' = [pc EXCEPT ![t] = fr[t].outer[1].pc]
            /\ fr' = [fr EXCEPT ![t] = fr[t].outer[1].fr]
       ELSE /\ pc' = [pc EXCEPT ![t] = "idle"]
            /\ fr' = [fr EXCEPT ![t] = IdleFrame]
    /\ UNCHANGED <<handleVars, lockVars, regVars, histVars, faults, terminated>>

\* ------------------------------- re-entry from the primitive (design, 5)
\* t is inside the primitive's open or close, made for a loadLibrary() or an
\* unloadLibrary() of its own
InPrimitive(t) ==
    /\ pc[t] \in {"acq_open", "rel_close"} /\ fr[t].edge
    /\ fr[t].kind \in {"load", "unload"}

\* the frame of a call on the same handle made from inside the call of t
NestedFrame(t, k) ==
    [NewFrame(k, fr[t].h) EXCEPT
        !.outer = <<[pc |-> pc[t], fr |-> [fr[t] EXCEPT !.reentered = TRUE]]>>]

\* a static initialiser or teardown callback of the module, run on the
\* thread that is opening or closing it, calls loadLibrary() on the handle
ReenterLoad(t) ==
    /\ InPrimitive(t)
    /\ MayIssue
    /\ issued' = issued + 1
    /\ calls' = [calls EXCEPT ![fr[t].h].other = TRUE]
    /\ fr' = [fr EXCEPT ![t] = NestedFrame(t, "load")]
    /\ pc' = [pc EXCEPT ![t] = "load_enter"]
    /\ UNCHANGED <<handleVars, lockVars, regVars, faults, terminated>>

\* ... or unloadLibrary()
ReenterUnload(t) ==
    /\ InPrimitive(t)
    /\ MayIssue
    /\ issued' = issued + 1
    /\ calls' = [calls EXCEPT ![fr[t].h].other = TRUE]
    /\ fr' = [fr EXCEPT ![t] = NestedFrame(t, "unload")]
    /\ pc' = [pc EXCEPT ![t] = "unload_enter"]
    /\ UNCHANGED <<handleVars, lockVars, regVars, faults, terminated>>

\* ------------------------------------------------------- specification
Step(t) ==
    \/ \E h \in Handles, p \in Paths, od \in BOOLEAN : Construct(t, h, p, od)
    \/ \E h \in Handles : Destroy(t, h)
    \/ \E h \in Handles : LoadCall(t, h)
    \/ \E h \in Handles : UnloadCall(t, h)
    \/ \E h \in Handles : CreateInstance(t, h)
    \/ \E h \in Handles : DeleteInstance(t, h)
    \/ \E h \in Handles : InternalCall(t, h)
    \/ loadLibrary_enter(t)
    \/ loadLibrary_inc(t)
    \/ Registry_acquire_add(t)
    \/ Registry_acquire_open(t)
    \/ loadLibrary_exit(t)
    \/ unloadLibrary_enter(t)
    \/ unloadLibraryInternal_lock(t)
    \/ unloadLibraryInternal_lockPlugin(t)
    \/ unloadLibraryInternal_check(t)
    \/ unloadLibraryInternal_branch(t)
    \/ Registry_release_remove(t)
    \/ Registry_release_close(t)
    \/ unloadLibraryInternal_unlock(t)
    \/ unloadLibraryInternal_ret(t)
    \/ plugin_lock(t)
    \/ plugin_body(t)
    \/ holder_lock(t)
    \/ holder_unlock(t)
    \/ Return(t)

Next == ~terminated /\ \E t \in Threads : Step(t)

Spec == Init /\ [][Next]_vars

\* the same program with modules whose initialisation and teardown code calls
\* back into the handle
NextReentrant ==
    /\ ~terminated
    /\ \E t \in Threads :
          \/ Step(t)
          \/ ReenterLoad(t)
          \/ ReenterUnload(t)

SpecReentrant == Init /\ [][NextReentrant]_vars

\* =================================================================== claims
UnloadKinds == {"unload", "dtor", "internal"}
\* t is inside unloadLibraryInternal, between the refusal check (line 152)
\* and the release of the plugin mutex (lines 166-174)
AfterCheck(t) == pc[t] \in {"int_branch", "rel_remove", "rel_close", "int_unlock"}
\* t has got the outcome of an unload
Unloaded(t) == pc[t] \in {"done", "held_unlock"} /\ fr[t].kind \in UnloadKinds

\* C1: an unload that finds plugin_ref_count_ > 0 at its check (made under the
\* load mutex and the plugin mutex) does not decrement load_ref_count_, does
\* not call Registry.release nor the primitive's close, raises no error, and
\* returns the unchanged load_ref_count_.
C1_RefusedUnload ==
    \A t \in Threads :
        LET h == fr[t].h IN
        /\ AfterCheck(t) /\ prc[h] > 0 => fr[t].refused
        /\ fr[t].refused =>
              /\ ~fr[t].released /\ ~fr[t].closed /\ fr[t].err = "none"
              /\ pc[t] \in {"int_unlock", "int_ret"} => lrc[h] = fr[t].lrc0
              /\ Unloaded(t) => fr[t].ret = fr[t].lrc0

\* a refused unloadLibrary() has returned the count it found, 1
C1_Witness ==
    \E t \in Threads :
        /\ pc[t] = "done" /\ fr[t].kind = "unload" /\ fr[t].refused
        /\ path[fr[t].h] # "" /\ fr[t].ret = 1 /\ lrc[fr[t].h] = 1

\* C2: load_ref_count_ is >= 0 whenever the load mutex of the handle is free,
\* and every value an unload returns is >= 0.
C2_NeverNegative ==
    /\ \A h \in Handles : loadLock[h].owner = NoThread => lrc[h] >= 0
    /\ \A t \in Threads : Unloaded(t) => fr[t].ret >= 0

\* an unloadLibrary() issued at count 0 was clamped and has returned 0
C2_Witness ==
    \E t \in Threads :
        /\ pc[t] = "done" /\ fr[t].kind = "unload" /\ fr[t].clamped
        /\ fr[t].ret = 0 /\ lrc[fr[t].h] = 0

Max0(n) == IF n < 0 THEN 0 ELSE n
\* every call on h has returned
Quiet(h) == \A t \in Threads : InCall(t) => fr[t].h # h
\* h went through loadLibrary() at least once
HasLoaded(h) == ~ondemand[h] \/ calls[h].load >= 1

\* C3: two handles of one library path, both having loaded it and both
\* destroyed, no plugin instance ever created, no primitive failure: the
\* primitive's open was invoked, and when it was invoked exactly once, so was
\* the primitive's close.
C3_OpenOnceCloseOnce ==
    \A p \in LibPaths :
        (/\ \A h \in Handles :
               /\ st[h] = "dead" /\ path[h] = p /\ Quiet(h)
               /\ HasLoaded(h) /\ ~calls[h].other
         /\ faults = 0)
        => /\ nOpen[p] >= 1
           /\ nOpen[p] = 1 => nClose[p] = 1

\* the calls of the scenario of C4 on h: loadLibrary()/unloadLibrary() only,
\* on an on-demand handle of a real library, no primitive failure, all returned
C4_Scenario(h) ==
    /\ st[h] = "alive" /\ path[h] # "" /\ ondemand[h]
    /\ ~calls[h].other /\ faults = 0 /\ Quiet(h)

\* C4 as stated: once all calls have returned, load_ref_count_ equals
\* max(0, #load - #unload).
C4_FinalCountIsMax ==
    \A h \in Handles :
        C4_Scenario(h) => lrc[h] = Max0(calls[h].load - calls[h].unload)

\* C4, amended: once all calls have returned, load_ref_count_ equals
\* #load - #unload + k, where k is the number of unloadLibrary() calls that
\* found the count at 0; so it is >= max(0, #load - #unload).
C4_FinalCount ==
    \A h \in Handles :
        C4_Scenario(h) =>
            /\ lrc[h] = calls[h].load - calls[h].unload + calls[h].clamps
            /\ lrc[h] >= Max0(calls[h].load - calls[h].unload)

\* one load and one unload have returned and the count is 1: the unload ran
\* first and found the count at 0
C4_Witness ==
    \E h \in Handles :
        /\ C4_Scenario(h) /\ calls[h].load = 1 /\ calls[h].unload = 1
        /\ calls[h].clamps = 1 /\ lrc[h] = 1

\* t waits for a mutex that another thread holds
Blocked(t) ==
    LET h == fr[t].h IN
    \/ pc[t] = "load_enter" /\ ~IsStaticPath(path[h]) /\ ~CanLockLoad(t, h)
    \/ pc[t] = "int_lock" /\ ~CanLockLoad(t, h)
    \/ pc[t] = "int_plock" /\ fr[t].lockPlugin /\ plugLock[h] # NoThread
    \/ pc[t] \in {"plug_lock", "held_lock"} /\ plugLock[h] # NoThread
    \/ pc[t] \in {"acq_add", "rel_remove"} /\ regLock # NoThread

\* C5: in no reachable state is every unfinished thread blocked on a lock.
C5_DeadlockFree ==
    (\E t \in Threads : InCall(t)) => \E t \in Threads : InCall(t) /\ ~Blocked(t)

HandleKinds == {"ctor", "load", "unload", "dtor"}

\* C6: a handle of the empty path never reaches the registry or the
\* primitive through construction, loadLibrary(), unloadLibrary() and
\* destruction: these calls end at the sentinel check, load_ref_count_ stays 0
\* and unloadLibrary() returns 0.
C6_StaticPathIsNoOp ==
    /\ owners[""] = {} /\ ~module[""] /\ nOpen[""] = 0 /\ nClose[""] = 0
    /\ \A h \in Handles :
          st[h] # "none" /\ path[h] = "" =>
             /\ \A p \in Paths : h \notin owners[p]
             /\ loadLock[h].owner = NoThread => lrc[h] = 0
             /\ \A t \in Threads :
                   fr[t].h = h /\ fr[t].kind \in HandleKinds =>
                      /\ pc[t] \in {"load_enter", "unload_enter", "done"}
                      /\ ~fr[t].released /\ ~fr[t].closed
                      /\ fr[t].err = "none" /\ fr[t].ret = 0

\* loadLibrary() was called on a handle of the empty path, and an
\* unloadLibrary() on it has returned 0
C6_Witness ==
    \E t \in Threads :
        /\ pc[t] = "done" /\ fr[t].kind = "unload" /\ fr[t].ret = 0
        /\ path[fr[t].h] = "" /\ calls[fr[t].h].load >= 1 /\ lrc[fr[t].h] = 0

\* C7: whenever the registry lock is free, the module of a path is loaded iff
\* the owner set of the path is non-empty; open is invoked only by the acquire
\* that made the set non-empty and close only by the release that emptied it;
\* without primitive failures the opens of a path exceed its closes by one
\* while the module is loaded and by none otherwise.
C7_RegistryInvariant ==
    /\ regLock = NoThread =>
          \A p \in Paths :
             /\ module[p] <=> owners[p] # {}
             /\ faults = 0 => nOpen[p] - nClose[p] = IF module[p] THEN 1 ELSE 0
    /\ \A t \in Threads :
          LET h == fr[t].h
              p == path[h]
          IN /\ pc[t] = "acq_open" =>
                   IF fr[t].edge THEN owners[p] = {h} /\ ~module[p]
                   ELSE module[p] /\ h \in owners[p]
             /\ pc[t] = "rel_close" =>
                   IF fr[t].edge THEN owners[p] = {} /\ module[p]
                   ELSE module[p] <=> owners[p] # {}

\* both handles own the path, after a close and a second open
C7_Witness ==
    \E p \in LibPaths :
        /\ regLock = NoThread /\ owners[p] = Handles /\ module[p]
        /\ nOpen[p] = 2 /\ nClose[p] = 1

\* C8: plugin_ref_count_ > 0 implies that the module of the handle's path is
\* loaded.
C8_InstancesPinModule ==
    \A h \in Handles :
        st[h] # "none" /\ path[h] # "" /\ prc[h] > 0 => module[path[h]]

\* t has decremented load_ref_count_ from 1 to 0 and is past the delegation
\* (it still holds the load mutex)
DroppedLast(t) ==
    /\ pc[t] \in {"int_unlock", "int_ret"}
    /\ ~fr[t].refused /\ fr[t].lrc0 = 1

C9_State ==
    \A t \in Threads :
        LET h == fr[t].h
            p == path[h]
        IN DroppedLast(t) =>
              /\ fr[t].released /\ h \notin owners[p]
              /\ fr[t].closed => fr[t].edge
              /\ fr[t].err = "none" => (fr[t].closed <=> fr[t].edge)

C9_Step ==
    \A p \in LibPaths :
        /\ nClose'[p] # nClose[p] => owners[p] = {} /\ owners'[p] = {}
        /\ \A b \in owners[p] :
              b \notin owners'[p] =>
                 \E t \in Threads :
                    /\ fr[t].h = b /\ pc[t] \in {"rel_remove", "acq_open"}
                    /\ pc'[t] # pc[t]

\* C9: a handle leaves the owner set of its path only by its own release (or
\* its own failed open), the primitive's close is invoked only when the owner
\* set has become empty, and an unload that takes load_ref_count_ from 1 to 0
\* releases exactly its own handle, closing the module iff it was the last
\* owner.
C9_OwnersAreIndependent == [](C9_State) /\ [][C9_Step]_vars

\* A and B own the path; an unloadLibrary() on one of them has returned 0,
\* released it without a close, and the other still owns the loaded module
C9_Witness ==
    \E t \in Threads :
        LET h == fr[t].h
            p == path[h]
        IN /\ pc[t] = "done" /\ fr[t].kind = "unload" /\ fr[t].ret = 0
           /\ p # "" /\ fr[t].released /\ ~fr[t].closed
           /\ owners[p] = Handles \ {h} /\ module[p] /\ nClose[p] = 0

\* C10: isLibraryLoaded() of a handle is true exactly when the handle is in
\* the owner set of its path, which it is when its loadLibrary() has got
\* through Registry.acquire; isLibraryLoadedByAnyClassloader() is true exactly
\* when some handle of that path is in the owner set; a handle that reports
\* loaded has its module loaded.
C10_Queries ==
    /\ \A h \in Handles :
          /\ isLibraryLoaded(h) <=> h \in owners[path[h]]
          /\ regLock = NoThread =>
                /\ isLibraryLoadedByAnyClassloader(h) <=>
                      \E g \in Handles : path[g] = path[h] /\ isLibraryLoaded(g)
                /\ isLibraryLoaded(h) => module[path[h]]
    /\ \A t \in Threads :
          pc[t] = "load_exit" /\ fr[t].err = "none" => isLibraryLoaded(fr[t].h)

\* both handles have loaded the path; after one has fully unloaded, it reports
\* not loaded, the other reports loaded, and both report loaded by anybody
C10_Witness ==
    \E a, b \in Handles :
        /\ a # b /\ path[a] = path[b] /\ path[a] # "" /\ regLock = NoThread
        /\ st[a] = "alive" /\ st[b] = "alive" /\ Quiet(a) /\ Quiet(b)
        /\ HasLoaded(a) /\ HasLoaded(b) /\ calls[a].unload = 1
        /\ ~isLibraryLoaded(a) /\ isLibraryLoaded(b)
        /\ isLibraryLoadedByAnyClassloader(a) /\ isLibraryLoadedByAnyClassloader(b)

\* t holds none of the locks
HoldsNoLock(t) ==
    /\ regLock # t
    /\ \A h \in Handles : loadLock[h].owner # t /\ plugLock[h] # t

\* C11: when loadLibrary() or unloadLibrary() has ended (normal return,
\* refusal, LoadError or UnloadError), the thread holds neither the load mutex
\* nor the plugin mutex nor the registry lock; a caller of
\* unloadLibraryInternal(false) is left with the plugin mutex it held before
\* and nothing else; when no call is running every lock is free.
C11_NoLockLeak ==
    /\ \A t \in Threads :
          /\ pc[t] \in {"idle", "done"} => HoldsNoLock(t)
          /\ pc[t] = "held_unlock" =>
                /\ regLock # t /\ plugLock[fr[t].h] = t
                /\ \A h \in Handles : loadLock[h].owner # t
    /\ (\A t \in Threads : ~InCall(t)) =>
          /\ regLock = NoThread
          /\ \A h \in Handles : loadLock[h] = FreeLoadLock /\ plugLock[h] = NoThread

\* an unloadLibrary() has ended with the UnloadError of a failed close, and
\* every lock is free
C11_Witness ==
    \E t \in Threads :
        /\ pc[t] = "done" /\ fr[t].kind = "unload" /\ fr[t].err = "UnloadError"
        /\ HoldsNoLock(t) /\ \A u \in Threads : ~InCall(u)
        /\ plugLock[fr[t].h] = NoThread /\ loadLock[fr[t].h] = FreeLoadLock

\* the step that completes the construction of h
Constructed(h) == st[h] \in {"none", "ctor"} /\ st'[h] = "alive"

C12_Step ==
    /\ \A h \in Handles :
          Constructed(h) /\ path'[h] # "" =>
             /\ prc'[h] = 0
             /\ IF ondemand'[h]
                THEN /\ st[h] = "none" /\ lrc'[h] = 0
                     /\ ~isLibraryLoaded(h)' /\ regVars' = regVars
                ELSE /\ st[h] = "ctor" /\ lrc'[h] = 1
                     /\ isLibraryLoaded(h)' /\ module'[path'[h]]
    /\ \A t \in Threads :
          LET p == path[fr[t].h] IN
          fr[t].kind = "ctor" =>
             /\ pc[t] = "acq_add" /\ pc'[t] = "acq_open" =>
                   (fr'[t].edge <=> owners[p] = {})
             /\ pc[t] = "acq_open" /\ pc'[t] = "load_exit" =>
                   /\ nOpen'[p] = nOpen[p] + (IF fr[t].edge THEN 1 ELSE 0)
                   /\ nClose' = nClose
             /\ nOpen' # nOpen \/ nClose' # nClose =>
                   \/ pc[t] = "acq_open"
                   \/ \E u \in Threads \ {t} : pc'[u] # pc[u]

\* C12: a construction with a non-empty path that succeeds ends, when not
\* on-demand, with load_ref_count_ = 1 and the handle in the owner set of its
\* loaded path, the primitive's open having been invoked by it iff the owner
\* set was empty beforehand; when on-demand, in one step with
\* load_ref_count_ = 0, the handle not in the owner set and the registry and
\* the primitive untouched; plugin_ref_count_ is 0 in both cases.
C12_Construction == [][C12_Step]_vars

\* B has been constructed not on-demand on the path A already owns: its count
\* is 1, both own the path, and open was invoked once in all
C12_Witness ==
    \E t \in Threads :
        /\ pc[t] = "done" /\ fr[t].kind = "ctor" /\ fr[t].h = "B"
        /\ ~ondemand["B"] /\ path["B"] \in LibPaths /\ ~fr[t].edge
        /\ lrc["B"] = 1 /\ prc["B"] = 0 /\ owners[path["B"]] = {"A", "B"}
        /\ nOpen[path["B"]] = 1 /\ nClose[path["B"]] = 0

\* h was destroyed with live instances while owning its path
Leaked(h) == st[h] = "dead" /\ prc[h] > 0 /\ isLibraryLoaded(h)

C13_State ==
    \A t \in Threads :
        LET h == fr[t].h IN
        /\ fr[t].kind = "dtor" /\ path[h] # "" /\ prc[h] > 0 /\ pc[t] = "done" =>
              /\ fr[t].refused /\ fr[t].err = "none"
              /\ ~fr[t].released /\ ~fr[t].closed
        /\ fr[t].kind = "dtor" /\ fr[t].refused /\ isLibraryLoaded(h) =>
              module[path[h]]

C13_Step ==
    \A h \in Handles :
        Leaked(h) /\ regLock = NoThread =>
           /\ module[path[h]]
           /\ Leaked(h)' /\ module'[path[h]]
           /\ nClose'[path[h]] = nClose[path[h]]

\* C13: the destructor's unload of a handle with live instances is refused
\* without an error; a handle destroyed that way while owning its path stays
\* in the owner set, and from then on the module of the path stays loaded and
\* the primitive's close is never invoked for that path, whatever the other
\* handles of the path do.
C13_LeftResident == [](C13_State) /\ [][C13_Step]_vars

\* A was destroyed with one live instance; B, bound to the same path, has
\* since been destroyed and has left the owner set; the module is still
\* loaded and was never closed
C13_Witness ==
    \E p \in LibPaths :
        /\ path["A"] = p /\ path["B"] = p /\ st["A"] = "dead" /\ st["B"] = "dead"
        /\ prc["A"] = 1 /\ owners[p] = {"A"} /\ module[p] /\ nClose[p] = 0
        /\ nOpen[p] = 1 /\ lrc["B"] = 0 /\ \A t \in Threads : ~InCall(t)

\* t is past the branch of lines 160-164 of an unload that was not refused
Decided(t) ==
    /\ fr[t].kind \in UnloadKinds /\ ~fr[t].refused
    /\ pc[t] \in {"rel_remove", "rel_close", "int_unlock", "int_ret", "done",
                  "held_unlock"}
    /\ path[fr[t].h] # ""

C14_State ==
    \A t \in Threads :
        LET h == fr[t].h
            c == fr[t].lrc0
        IN Decided(t) =>
              /\ c >= 0
              /\ pc[t] \notin {"done", "held_unlock"} => lrc[h] = Max0(c - 1)
              /\ pc[t] # "rel_remove" => (fr[t].released <=> c = 1)
              /\ fr[t].clamped <=> c = 0
              /\ Unloaded(t) /\ fr[t].err = "none" => fr[t].ret = Max0(c - 1)

C14_Step ==
    /\ \A t \in Threads :
          LET h == fr[t].h IN
          /\ pc[t] = "load_inc" /\ pc'[t] # pc[t] => lrc'[h] = lrc[h] + 1
          /\ pc[t] = "rel_remove" /\ pc'[t] # pc[t] => fr[t].lrc0 = 1 /\ lrc[h] = 0
    /\ \A h \in Handles :
          lrc'[h] # lrc[h] =>
             /\ lrc'[h] - lrc[h] \in {-1, 1}
             /\ \E t \in Threads :
                   /\ fr[t].h = h /\ pc'[t] # pc[t]
                   /\ pc[t] \in {"load_inc", "int_check", "int_branch"}

\* C14: an unload that is not refused, finding load_ref_count_ = c: for c = 1
\* the count becomes 0 and Registry.release is called (once); for c > 1 the
\* count becomes c - 1 and for c = 0 it stays 0, without Registry.release;
\* the value returned is the resulting count; loadLibrary() raises the count
\* by exactly 1, and the count changes in no other way.
C14_UnloadEffect == [](C14_State) /\ [][C14_Step]_vars

\* an unloadLibrary() that found the count at 2 has returned 1 without a
\* release
C14_Witness ==
    \E t \in Threads :
        /\ pc[t] = "done" /\ fr[t].kind = "unload" /\ ~fr[t].refused
        /\ fr[t].lrc0 = 2 /\ fr[t].ret = 1 /\ ~fr[t].released
        /\ lrc[fr[t].h] = 1 /\ isLibraryLoaded(fr[t].h)

\* t is between the refusal check (line 152) and the end of the delegation
\* (line 161) of an unload that was not refused
Delegating(t) ==
    /\ pc[t] \in {"int_branch", "rel_remove", "rel_close"}
    /\ fr[t].kind \in UnloadKinds

\* C15: from the refusal check to the end of the delegation to
\* Registry.release the thread holds the load mutex and the plugin mutex of
\* the handle, and plugin_ref_count_ is 0 all along: neither Registry.release
\* nor the primitive's close is invoked by a handle whose plugin_ref_count_
\* is > 0, whatever the increment and decrement operations of other threads
\* do.
C15_CheckAndReleaseAtomic ==
    \A t \in Threads :
        LET h == fr[t].h IN
        /\ Delegating(t) =>
              /\ ~fr[t].refused /\ prc[h] = 0
              /\ loadLock[h].owner = t /\ plugLock[h] = t
        /\ fr[t].kind \in UnloadKinds /\ pc[t] = "int_unlock" /\ fr[t].released =>
              prc[h] = 0 /\ plugLock[h] = t

\* an unloadLibrary() is about to release the handle while another thread,
\* in the increment operation for a new instance, waits for the plugin mutex
C15_Witness ==
    \E t, u \in Threads :
        /\ t # u /\ fr[t].h = fr[u].h
        /\ pc[t] = "rel_remove" /\ fr[t].kind = "unload"
        /\ pc[u] = "plug_lock" /\ fr[u].kind = "inc"
        /\ prc[fr[t].h] = 0 /\ plugLock[fr[t].h] = t

\* no loadLibrary()/unloadLibrary() (constructor, destructor and
\* unloadLibraryInternal(false) included) is in progress on h
NoLoadUnloadOn(h) ==
    \A t \in Threads :
        InCall(t) /\ fr[t].h = h => fr[t].kind \in {"inc", "dec"}

\* C17: in a run without primitive failures, whenever no load or unload is
\* in progress on a handle of a non-empty path, the handle is in the owner
\* set of its path iff its load_ref_count_ is > 0.
C17_LoadedIffCounted ==
    \A h \in Handles :
        st[h] # "none" /\ path[h] # "" /\ faults = 0 /\ NoLoadUnloadOn(h) =>
           (isLibraryLoaded(h) <=> lrc[h] > 0)

\* after one loadLibrary() and one unloadLibrary() an on-demand handle is at
\* count 0 and out of the owner set, while the other handle of the path is at
\* count 1 and in it
C17_Witness ==
    \E h, g \in Handles :
        /\ h # g /\ path[h] \in LibPaths /\ path[g] = path[h] /\ faults = 0
        /\ st[h] = "alive" /\ st[g] = "alive" /\ \A t \in Threads : ~InCall(t)
        /\ ondemand[h] /\ calls[h].load = 1 /\ calls[h].unload = 1
        /\ calls[h].clamps = 0
        /\ lrc[h] = 0 /\ ~isLibraryLoaded(h) /\ lrc[g] = 1 /\ isLibraryLoaded(g)

LoadKinds == {"ctor", "load"}
\* the loadLibrary() of t has met a LoadError
FailedLoad(t) == fr[t].kind \in LoadKinds /\ fr[t].err = "LoadError"

C18_State ==
    \A t \in Threads :
        LET h == fr[t].h IN
        FailedLoad(t) =>
           /\ pc[t] \in {"load_exit", "done"} /\ fr[t].edge
           /\ pc[t] = "load_exit" =>
                 /\ lrc[h] = fr[t].lrc0 + 1
                 /\ ~isLibraryLoaded(h)

C18_Step ==
    \A t \in Threads :
        LET h == fr[t].h
            p == path[h]
        IN /\ pc[t] = "acq_open" /\ FailedLoad(t)' =>
                 /\ ~module'[p] /\ owners'[p] = {} /\ regLock' = NoThread
                 /\ lrc'[h] = fr[t].lrc0 + 1
           /\ pc[t] = "load_exit" /\ FailedLoad(t) /\ pc'[t] # pc[t] =>
                 /\ pc'[t] = "done" /\ fr'[t] = fr[t]
                 /\ lrc'[h] = fr[t].lrc0 + 1

\* C18: when the primitive's open fails in Registry.acquire, the module is
\* not loaded and the handle owns nothing, the LoadError is the outcome of
\* loadLibrary(), and load_ref_count_ is left one above its value before the
\* call.
C18_FailedLoadKeepsCount == [](C18_State) /\ [][C18_Step]_vars

\* a loadLibrary() has ended with a LoadError: the count went from 0 to 1,
\* the module is not loaded
C18_Witness ==
    \E t \in Threads :
        LET h == fr[t].h IN
        /\ pc[t] = "done" /\ fr[t].kind = "load" /\ fr[t].err = "LoadError"
        /\ fr[t].lrc0 = 0 /\ lrc[h] = 1
        /\ ~module[path[h]] /\ ~isLibraryLoaded(h)

\* the destructor of t's handle has made its unload, which was not refused
Destroyed(t) ==
    /\ fr[t].kind = "dtor" /\ pc[t] = "done" /\ ~fr[t].refused
    /\ path[fr[t].h] # ""

C19_State ==
    \A t \in Threads :
        LET h == fr[t].h
            n == fr[t].lrc0
        IN Destroyed(t) =>
              /\ st[h] = "dead" /\ prc[h] = 0
              /\ calls[h].dtor = 1
              /\ lrc[h] = Max0(n - 1)
              /\ fr[t].released <=> n = 1
              /\ fr[t].closed => fr[t].released
              /\ n >= 2 /\ faults = 0 => isLibraryLoaded(h) /\ module[path[h]]
              /\ n = 1 => ~isLibraryLoaded(h)

C19_Step ==
    \A h \in Handles :
        st[h] = "dead" =>
           /\ st'[h] = "dead" /\ lrc'[h] = lrc[h]
           /\ isLibraryLoaded(h)' <=> isLibraryLoaded(h)
           /\ isLibraryLoaded(h) => nClose'[path[h]] = nClose[path[h]]

\* C19: the destructor makes one unload.  Destroyed with plugin_ref_count_
\* = 0 and load_ref_count_ = n, the handle ends with count max(0, n - 1); it
\* is released from the owner set iff n = 1; for n >= 2 it stays in the owner
\* set for good, with the module loaded and never closed afterwards.
C19_DestructorUnloadsOnce == [](C19_State) /\ [][C19_Step]_vars

\* a handle was destroyed at count 2: it is left at count 1, still owning its
\* loaded path, with no release and no close
C19_Witness ==
    \E t \in Threads :
        LET h == fr[t].h IN
        /\ Destroyed(t) /\ fr[t].lrc0 = 2 /\ lrc[h] = 1 /\ st[h] = "dead"
        /\ calls[h].dtor = 1
        /\ ~fr[t].released /\ owners[path[h]] = {h} /\ module[path[h]]
        /\ nClose[path[h]] = 0

\* the release made by t's unload has raised an error
FailedRelease(t) == fr[t].kind \in UnloadKinds /\ fr[t].err = "UnloadError"
\* t is in a later unload of a handle whose release failed, no increment in
\* between, and holds the load mutex
UnloadAfterFailure(t) ==
    /\ fr[t].kind \in UnloadKinds /\ fr[t].err = "none"
    /\ pc[t] \in {"int_plock", "int_check", "int_branch", "rel_remove", "rel_close",
                  "int_unlock", "int_ret"}
    /\ calls[fr[t].h].relFailed

C20_State ==
    \A t \in Threads :
        LET h == fr[t].h IN
        /\ FailedRelease(t) =>
              /\ fr[t].lrc0 = 1 /\ fr[t].released
              /\ pc[t] \in {"int_unlock", "int_ret", "done", "held_unlock"}
              /\ pc[t] \in {"int_unlock", "int_ret"} => lrc[h] = 0
        /\ UnloadAfterFailure(t) =>
              /\ lrc[h] \in {0, -1} /\ ~fr[t].released /\ ~fr[t].closed
              /\ pc[t] \notin {"rel_remove", "rel_close"}
              /\ pc[t] \in {"int_unlock", "int_ret"} => lrc[h] = 0

C20_Step ==
    \A t \in Threads :
        LET h == fr[t].h IN
        /\ FailedRelease(t) /\ pc[t] = "int_ret" /\ pc'[t] # pc[t] =>
              /\ lrc'[h] = 0 /\ fr'[t].err = "UnloadError"
        /\ UnloadAfterFailure(t) /\ pc'[t] # pc[t] =>
              /\ owners' = owners /\ module' = module /\ nClose' = nClose
              /\ pc[t] = "int_ret" => fr'[t].ret = 0 /\ lrc'[h] = 0

\* C20: when the release of an unload that took load_ref_count_ from 1 to 0
\* raises an error, the error is the outcome of the call and the count stays
\* 0; every later unload of the handle, as long as no loadLibrary() has
\* raised the count, returns 0 without calling Registry.release and changes
\* nothing in the registry.
C20_FailedReleaseNotRetried == [](C20_State) /\ [][C20_Step]_vars

\* after an unloadLibrary() whose release failed, a second unloadLibrary()
\* has returned 0 without a release
C20_Witness ==
    \E t \in Threads :
        LET h == fr[t].h IN
        /\ pc[t] = "done" /\ fr[t].kind = "unload" /\ fr[t].err = "none"
        /\ calls[h].relFailed /\ calls[h].unload = 2 /\ faults = 1
        /\ fr[t].ret = 0 /\ ~fr[t].released /\ fr[t].clamped /\ lrc[h] = 0

\* t, in a nested call, waits for a lock that its own suspended call holds
SelfBlocked(t) ==
    LET h == fr[t].h IN
    /\ Nested(t)
    /\ \/ pc[t] \in {"load_enter", "int_lock"} /\ ~IsStaticPath(path[h])
          /\ ~CanLockLoad(t, h) /\ loadLock[h].owner = t
       \/ pc[t] = "int_plock" /\ LocksPlugin(fr[t]) /\ plugLock[h] = t
       \/ pc[t] \in {"acq_add", "rel_remove"} /\ ~CanLockRegistry(t)

=============================================================================
